---- MODULE Spec2Model ----
(***************************************************************************)
(* Scoped MCP server configuration of the chat CLI (crates/chat-cli):      *)
(* the mutation commands Add, Remove, Import, UseProfileServersOnly and    *)
(* the multi-scope loader get_mcp_server_configs of src/cli/mcp.rs, run    *)
(* against an abstract file system.                                        *)
(*                                                                         *)
(* Each command runs to completion in one step.  File-system calls are     *)
(* assumed to succeed (no permission or disk errors); a document on disk   *)
(* is absent, malformed (does not decode) or a decoded McpServerConfig.    *)
(*                                                                         *)
(* Two further components have a specification of their own:               *)
(*   SpecSession  the /profile subcommands of src/cli/chat/cli/profile.rs, *)
(*                run on a chat session (writes to the terminal are        *)
(*                assumed to succeed, like the file-system calls);         *)
(*   SpecOptOut   the OptOutInterceptor of src/api_client/opt_out.rs,      *)
(*                called on an outgoing request.                           *)
(***************************************************************************)
EXTENDS Integers, Sequences, FiniteSets, TLC

VARIABLES files,   \* path -> document stored there
          dirs,    \* set of existing directories (paths)
          pre,     \* files and dirs as they were before the last command
          last,    \* the last command: arguments, outcome, result, I/O trace
          budget,  \* number of commands still to run
          session, \* the chat session the /profile subcommands act on
          ran,     \* the last /profile subcommand: arguments, events, result
          database, \* the settings the interceptor is constructed from
          interceptor, \* the OptOutInterceptor
          request  \* the outgoing request and the last step taken on it

vars == <<files, dirs, pre, last, budget,
          session, ran, database, interceptor, request>>

-----------------------------------------------------------------------------
(* Bounds *)

MaxSteps == 2          \* commands run on one file system or one session
MaxCalls == 3          \* steps taken on one request

Names    == {"a", "b"}               \* server names
Defs     == {"d1", "d2"}              \* server definitions (CustomToolConfig values)
Profiles == {"p1", "p2"}             \* profile names

-----------------------------------------------------------------------------
(* Options, scopes, paths *)

NONE == "none"                       \* Option::None of a scope or profile argument

Workspace == "workspace"
Global    == "global"
Profile   == "profile"
Scope     == {Workspace, Global, Profile}

workspace_mcp_config_path == <<"workspace", "mcp.json">>
global_mcp_config_path    == <<"global", "mcp.json">>
profile_mcp_path(p)       == <<"profiles", p, "mcp.json">>
SourcePath                == <<"import", "servers.json">>

ConfigPaths == {workspace_mcp_config_path, global_mcp_config_path}
                 \cup {profile_mcp_path(p) : p \in Profiles}
Paths       == ConfigPaths \cup {SourcePath}

parent(path) == SubSeq(path, 1, Len(path) - 1)

\* every directory on the way to dir, dir included
Ancestors(dir) == {SubSeq(dir, 1, i) : i \in 1 .. Len(dir)}

-----------------------------------------------------------------------------
(* Documents *)

EmptyServers == [n \in {} |-> 0]

McpServerConfig_default ==
    [mcp_servers |-> EmptyServers, use_profile_servers_only |-> FALSE]

Absent    == [kind |-> "absent"]
Malformed == [kind |-> "malformed"]
Doc(cfg)  == [kind |-> "doc", cfg |-> cfg]

Cfg(servers, exclusive) ==
    [mcp_servers |-> servers, use_profile_servers_only |-> exclusive]

NoCfg       == <<>>                  \* Option<McpServerConfig>::None
SomeCfg(c)  == <<c>>
IsSome(o)   == Len(o) = 1
Unwrap(o)   == o[1]

contains_key(servers, name) == name \in DOMAIN servers

insert_alone(servers, name, def) ==
    [n \in {name} |-> def]

insert(servers, name, def) ==
    [n \in DOMAIN servers \cup {name} |-> IF n = name THEN def ELSE servers[n]]

remove(servers, name) ==
    [n \in DOMAIN servers \ {name} |-> servers[n]]

-----------------------------------------------------------------------------
(* The file system as a command sees it: c = [files, dirs, io].             *)
(* io is the trace of file-system calls the command has made so far.        *)

Ctx(f, d) == [files |-> f, dirs |-> d, io |-> <<>>]

Log(c, call, path) == [c EXCEPT !.io = Append(@, <<call, path>>)]

\* os.fs.exists on a file or a directory
exists(c, path) == \/ path \in DOMAIN c.files /\ c.files[path].kind # "absent"
                   \/ path \in c.dirs

create_dir_all(c, dir) ==
    [Log(c, "create_dir_all", dir) EXCEPT !.dirs = @ \cup Ancestors(dir)]

\* McpServerConfig::load_from_file: read and decode
load_from_file(c, path) ==
    LET c1 == Log(c, "read", path) IN
    IF c.files[path].kind = "doc"
    THEN [c |-> c1, ok |-> TRUE,  cfg |-> c.files[path].cfg]
    ELSE [c |-> c1, ok |-> FALSE, cfg |-> McpServerConfig_default]

\* McpServerConfig::save_to_file: encode and write
save_to_file(c, path, cfg) ==
    [Log(c, "write", path) EXCEPT !.files[path] = Doc(cfg)]

-----------------------------------------------------------------------------
(* Helpers of mcp.rs *)

resolve_scope_profile_by_profile(scope, profile) ==
    CASE scope = Global  -> [ok |-> TRUE, path |-> global_mcp_config_path]
      [] scope = Profile \/ (scope = NONE /\ profile # NONE) ->
            IF profile = NONE
            THEN [ok |-> FALSE, path |-> <<>>]
            ELSE [ok |-> TRUE, path |-> profile_mcp_path(profile)]
      [] OTHER           -> [ok |-> TRUE, path |-> workspace_mcp_config_path]

resolve_scope_profile_lenient(scope, profile) ==
    CASE scope = Global  -> [ok |-> TRUE, path |-> global_mcp_config_path]
      [] scope = Profile /\ profile # NONE
                         -> [ok |-> TRUE, path |-> profile_mcp_path(profile)]
      [] OTHER           -> [ok |-> TRUE, path |-> workspace_mcp_config_path]

resolve_scope_profile(scope, profile) ==
    CASE scope = Global  -> [ok |-> TRUE, path |-> global_mcp_config_path]
      [] scope = Profile ->
            IF profile = NONE
            THEN [ok |-> FALSE, path |-> <<>>]
            ELSE [ok |-> TRUE, path |-> profile_mcp_path(profile)]
      [] OTHER           -> [ok |-> TRUE, path |-> workspace_mcp_config_path]

load_cfg_contained(c, p) ==
    IF exists(Log(c, "exists", p), p)
    THEN [load_from_file(Log(c, "exists", p), p) EXCEPT !.ok = TRUE]
    ELSE [c |-> Log(c, "exists", p), ok |-> TRUE, cfg |-> McpServerConfig_default]

load_cfg_strict(c, p) ==
    load_from_file(Log(c, "exists", p), p)

load_cfg(c, p) ==
    IF exists(Log(c, "exists", p), p)
    THEN load_from_file(Log(c, "exists", p), p)
    ELSE [c |-> Log(c, "exists", p), ok |-> TRUE, cfg |-> McpServerConfig_default]

ensure_config_file_unsaved(c, path) ==
    load_cfg(Log(c, "exists", path), path)

ensure_config_file(c, path) ==
    LET c1 == Log(c, "exists", path)
        c2 == IF ~exists(c1, path)
              THEN save_to_file(create_dir_all(c1, parent(path)),
                                path, McpServerConfig_default)
              ELSE c1
    IN  load_cfg(c2, path)

load_config_defaulting(c, path) ==
    LET c1 == Log(c, "exists", path) IN
    IF exists(c1, path)
    THEN LET r == load_from_file(c1, path) IN
         [c |-> r.c, cfg |-> SomeCfg(r.cfg)]
    ELSE [c |-> c1, cfg |-> NoCfg]

load_config_repairing(c, path) ==
    LET c1 == Log(c, "exists", path) IN
    IF exists(c1, path)
    THEN LET r == load_from_file(c1, path) IN
         IF r.ok
         THEN [c |-> r.c, cfg |-> SomeCfg(r.cfg)]
         ELSE [c |-> save_to_file(r.c, path, McpServerConfig_default), cfg |-> NoCfg]
    ELSE [c |-> c1, cfg |-> NoCfg]

load_config_with_error_handling(c, path) ==
    LET c1 == Log(c, "exists", path) IN
    IF exists(c1, path)
    THEN LET r == load_from_file(c1, path) IN
         [c |-> r.c, cfg |-> IF r.ok THEN SomeCfg(r.cfg) ELSE NoCfg]
    ELSE [c |-> c1, cfg |-> NoCfg]

-----------------------------------------------------------------------------
(* Outcome of one command *)

\* err: NONE when the command returned Ok, else the error it bailed with;
\* report: the line the command printed; result: what it returned;
\* added: entries merged by Import before it stopped.
Out(c, err, report, result, added) ==
    [c |-> c, err |-> err, report |-> report, result |-> result, added |-> added]

Fail(c, err)      == Out(c, err, NONE, <<>>, 0)
Done(c, report)   == Out(c, NONE, report, <<>>, 0)

-----------------------------------------------------------------------------
(* AddArgs::execute *)

AddConflict_ignored(config, name, force) == FALSE

AddConflict(config, name, force) ==
    contains_key(config.mcp_servers, name) /\ ~force

AddArgs_execute(c, name, def, scope, profile, force) ==
    LET r == resolve_scope_profile(scope, profile) IN
    IF ~r.ok THEN Fail(c, "MissingProfileName") ELSE
    LET e == ensure_config_file(c, r.path) IN
    IF ~e.ok THEN Fail(e.c, "LoadError") ELSE
    IF AddConflict(e.cfg, name, force) THEN Fail(e.c, "DuplicateServer") ELSE
    LET config == [e.cfg EXCEPT !.mcp_servers = insert(@, name, def)]
    IN  Done(save_to_file(e.c, r.path, config), "added")

-----------------------------------------------------------------------------
(* RemoveArgs::execute *)

remove_and_save_cleared(c, path, config, name) ==
    IF contains_key(config.mcp_servers, name)
    THEN Done(save_to_file(c, path, [config EXCEPT !.mcp_servers = EmptyServers]),
              "removed")
    ELSE Done(c, "not_found")

remove_and_save_always(c, path, config, name) ==
    Done(save_to_file(c, path,
                      [config EXCEPT !.mcp_servers = remove(@, name)]),
         IF contains_key(config.mcp_servers, name) THEN "removed" ELSE "not_found")

\* the match on config.mcp_servers.remove(&self.name)
remove_and_save(c, path, config, name) ==
    IF contains_key(config.mcp_servers, name)
    THEN Done(save_to_file(c, path,
                           [config EXCEPT !.mcp_servers = remove(@, name)]),
              "removed")
    ELSE Done(c, "not_found")

RemoveMissing_ensured(c, path) ==
    IF exists(Log(c, "exists", path), path)
    THEN [c |-> Log(c, "exists", path), missing |-> FALSE]
    ELSE [c |-> save_to_file(create_dir_all(Log(c, "exists", path), parent(path)),
                             path, McpServerConfig_default),
          missing |-> FALSE]

\* the early return when the target file does not exist
RemoveMissing(c, path) ==
    [c |-> Log(c, "exists", path), missing |-> ~exists(Log(c, "exists", path), path)]

RemoveArgs_execute(c, name, scope, profile) ==
    LET r == resolve_scope_profile(scope, profile) IN
    IF ~r.ok THEN Fail(c, "MissingProfileName") ELSE
    LET m == RemoveMissing(c, r.path) IN
    IF m.missing THEN Done(m.c, "no_configs") ELSE
    LET l == load_from_file(m.c, r.path) IN
    IF ~l.ok THEN Fail(l.c, "LoadError") ELSE
    remove_and_save(l.c, r.path, l.cfg, name)

-----------------------------------------------------------------------------
(* ImportArgs::execute *)

\* the sequences that list every element of S once
Perms(S) == {q \in [1 .. Cardinality(S) -> S] :
                \A i, j \in 1 .. Cardinality(S) : q[i] = q[j] => i = j}

\* the orders in which the for loop may visit the entries of the document
\* at path (a HashMap iterates in an arbitrary order)
into_iter(f, path) ==
    IF f[path].kind = "doc" THEN Perms(DOMAIN f[path].cfg.mcp_servers) ELSE {<<>>}

ImportConflict_ignored(dst_cfg, name, force) == FALSE

ImportConflict(dst_cfg, name, force) ==
    contains_key(dst_cfg.mcp_servers, name) /\ ~force

ImportLoop_first_only(dst_cfg, src_cfg, order, i, force, added) ==
    IF i > Len(order)
    THEN [conflict |-> FALSE, dst_cfg |-> dst_cfg, added |-> added]
    ELSE IF ImportConflict(dst_cfg, order[i], force)
         THEN [conflict |-> TRUE, dst_cfg |-> dst_cfg, added |-> added]
         ELSE [conflict |-> FALSE,
               dst_cfg  |-> [dst_cfg EXCEPT !.mcp_servers =
                               insert(@, order[i], src_cfg.mcp_servers[order[i]])],
               added    |-> added + 1]

RECURSIVE ImportLoop(_, _, _, _, _, _)
\* the for loop over src_cfg.mcp_servers, from position i of order on
ImportLoop(dst_cfg, src_cfg, order, i, force, added) ==
    IF i > Len(order)
    THEN [conflict |-> FALSE, dst_cfg |-> dst_cfg, added |-> added]
    ELSE IF ImportConflict(dst_cfg, order[i], force)
         THEN [conflict |-> TRUE, dst_cfg |-> dst_cfg, added |-> added]
         ELSE ImportLoop([dst_cfg EXCEPT !.mcp_servers =
                             insert(@, order[i], src_cfg.mcp_servers[order[i]])],
                         src_cfg, order, i + 1, force, added + 1)

ImportArgs_execute_with_flag(c, file, scope, profile, force, order) ==
    LET r == resolve_scope_profile(scope, profile) IN
    IF ~r.ok THEN Fail(c, "MissingProfileName") ELSE
    LET e == ensure_config_file(c, r.path) IN
    IF ~e.ok THEN Fail(e.c, "LoadError") ELSE
    LET s == load_from_file(e.c, file) IN
    IF ~s.ok THEN Fail(s.c, "LoadError") ELSE
    LET m == ImportLoop(e.cfg, s.cfg, order, 1, force, 0) IN
    IF m.conflict THEN Out(s.c, "DuplicateServer", NONE, <<>>, m.added) ELSE
    Out(save_to_file(s.c, r.path,
                     [m.dst_cfg EXCEPT !.use_profile_servers_only =
                                          s.cfg.use_profile_servers_only]),
        NONE, "imported", <<>>, m.added)

ImportArgs_execute(c, file, scope, profile, force, order) ==
    LET r == resolve_scope_profile(scope, profile) IN
    IF ~r.ok THEN Fail(c, "MissingProfileName") ELSE
    LET e == ensure_config_file(c, r.path) IN
    IF ~e.ok THEN Fail(e.c, "LoadError") ELSE
    LET s == load_from_file(e.c, file) IN
    IF ~s.ok THEN Fail(s.c, "LoadError") ELSE
    LET m == ImportLoop(e.cfg, s.cfg, order, 1, force, 0) IN
    IF m.conflict THEN Out(s.c, "DuplicateServer", NONE, <<>>, m.added) ELSE
    Out(save_to_file(s.c, r.path, m.dst_cfg), NONE, "imported", <<>>, m.added)

-----------------------------------------------------------------------------
(* UseProfileServersOnlyArgs::execute *)

ProfileMissing_unchecked(c, profile_dir) ==
    [c |-> Log(c, "exists", profile_dir), missing |-> FALSE]

\* the check that the profile's directory exists
ProfileMissing(c, profile_dir) ==
    [c |-> Log(c, "exists", profile_dir),
     missing |-> ~exists(Log(c, "exists", profile_dir), profile_dir)]

UseProfileServersOnlyArgs_execute_always_on(c, profile, value) ==
    LET path == profile_mcp_path(profile)
        d    == ProfileMissing(c, parent(path))
    IN
    IF d.missing THEN Fail(d.c, "ProfileNotFound") ELSE
    LET c1 == Log(d.c, "exists", path)
        l  == IF exists(c1, path)
              THEN load_from_file(c1, path)
              ELSE [c |-> c1, ok |-> TRUE, cfg |-> McpServerConfig_default]
        config == IF l.ok THEN l.cfg ELSE McpServerConfig_default
    IN  Done(save_to_file(create_dir_all(l.c, parent(path)), path,
                          [config EXCEPT !.use_profile_servers_only = TRUE]),
             "set")

UseProfileServersOnlyArgs_execute_from_default(c, profile, value) ==
    LET path == profile_mcp_path(profile)
        d    == ProfileMissing(c, parent(path))
    IN
    IF d.missing THEN Fail(d.c, "ProfileNotFound") ELSE
    LET c1 == Log(d.c, "exists", path)
    IN  Done(save_to_file(create_dir_all(c1, parent(path)), path,
                          [McpServerConfig_default
                             EXCEPT !.use_profile_servers_only = value]),
             "set")

UseProfileServersOnlyArgs_execute(c, profile, value) ==
    LET path == profile_mcp_path(profile)
        d    == ProfileMissing(c, parent(path))
    IN
    IF d.missing THEN Fail(d.c, "ProfileNotFound") ELSE
    LET c1 == Log(d.c, "exists", path)
        l  == IF exists(c1, path)
              THEN load_from_file(c1, path)
              ELSE [c |-> c1, ok |-> TRUE, cfg |-> McpServerConfig_default]
        config == IF l.ok THEN l.cfg ELSE McpServerConfig_default
    IN  Done(save_to_file(create_dir_all(l.c, parent(path)), path,
                          [config EXCEPT !.use_profile_servers_only = value]),
             "set")

-----------------------------------------------------------------------------
(* get_mcp_server_configs *)

scopes_to_load_global_first(profile) ==
    (IF profile # NONE THEN <<<<Profile, profile>>>> ELSE <<>>)
        \o <<<<Global, NONE>>, <<Workspace, NONE>>>>

\* the candidate scopes, most specific first
scopes_to_load(profile) ==
    (IF profile # NONE THEN <<<<Profile, profile>>>> ELSE <<>>)
        \o <<<<Workspace, NONE>>, <<Global, NONE>>>>

profile_exclusive_never(scope_type, cfg_opt) == FALSE

profile_exclusive_any_scope(scope_type, cfg_opt) ==
    /\ IsSome(cfg_opt)
    /\ Unwrap(cfg_opt).use_profile_servers_only

\* the check for profile exclusivity on a freshly loaded scope
profile_exclusive(scope_type, cfg_opt) ==
    /\ scope_type = Profile
    /\ IsSome(cfg_opt)
    /\ Unwrap(cfg_opt).use_profile_servers_only

RECURSIVE LoadScopes(_, _, _, _)
\* the for loop over scopes_to_load, from position i on
LoadScopes(c, todo, i, results) ==
    IF i > Len(todo) THEN Out(c, NONE, NONE, results, 0) ELSE
    LET r == resolve_scope_profile(todo[i][1], todo[i][2]) IN
    IF ~r.ok THEN Fail(c, "MissingProfileName") ELSE
    LET l == load_config_with_error_handling(c, r.path)
        entry == <<todo[i][1], r.path, l.cfg>>
    IN  IF profile_exclusive(todo[i][1], l.cfg)
        THEN Out(l.c, NONE, NONE, Append(results, entry), 0)
        ELSE LoadScopes(l.c, todo, i + 1, Append(results, entry))

get_mcp_server_configs_all(c, scope, profile) ==
    LoadScopes(c, scopes_to_load(profile), 1, <<>>)

get_mcp_server_configs(c, scope, profile) ==
    IF scope # NONE
    THEN LET r == resolve_scope_profile(scope, profile) IN
         IF ~r.ok THEN Fail(c, "MissingProfileName") ELSE
         LET l == load_config_with_error_handling(c, r.path) IN
         Out(l.c, NONE, NONE, <<<<scope, r.path, l.cfg>>>>, 0)
    ELSE LoadScopes(c, scopes_to_load(profile), 1, <<>>)

-----------------------------------------------------------------------------
(* StatusArgs::execute *)

\* the entries of configs whose registry is loaded and has the name, each
\* printed as one block
StatusBlocks(configs, name) ==
    LET has(e) == IsSome(e[3]) /\ contains_key(Unwrap(e[3]).mcp_servers, name)
        hits   == SelectSeq(configs, has)
    IN  [i \in DOMAIN hits |->
            <<hits[i][1], hits[i][2], Unwrap(hits[i][3]).mcp_servers[name]>>]

\* the profile-exclusivity warning printed ahead of the blocks
StatusWarning(configs, profile) ==
    /\ profile # NONE
    /\ \E i \in DOMAIN configs :
         /\ configs[i][1] = Profile
         /\ IsSome(configs[i][3])
         /\ Unwrap(configs[i][3]).use_profile_servers_only

StatusArgs_execute_lenient(c, name, profile) ==
    LET a == get_mcp_server_configs(c, NONE, profile) IN
    IF a.err # NONE THEN Fail(a.c, a.err) ELSE
    Out(a.c, NONE,
        IF StatusWarning(a.result, profile) THEN "exclusive_warning" ELSE NONE,
        StatusBlocks(a.result, name), 0)

StatusArgs_execute(c, name, profile) ==
    LET a == get_mcp_server_configs(c, NONE, profile) IN
    IF a.err # NONE THEN Fail(a.c, a.err) ELSE
    Out(a.c,
        IF StatusBlocks(a.result, name) = <<>> THEN "ServerNotFound" ELSE NONE,
        IF StatusWarning(a.result, profile) THEN "exclusive_warning" ELSE NONE,
        StatusBlocks(a.result, name), 0)

-----------------------------------------------------------------------------
(* ProfileSubcommand::execute, on a chat session.                           *)
(* The context manager and the conversation are collaborators: each of     *)
(* their calls either succeeds or fails, and a call is recorded in         *)
(* s.events as <<call, profile, succeeded>>.                                *)

ProfileNames == Profiles \cup {"default"}

Called(s, call, name, ok) == [s EXCEPT !.events = Append(@, <<call, name, ok>>)]

\* execute!(session.stderr, ...)
execute(s, line) == [s EXCEPT !.stderr = Append(@, line)]

list_profiles(s, io_ok) ==
    [s |-> Called(s, "list_profiles", NONE, io_ok), ok |-> io_ok]

create_profile(s, name, io_ok) ==
    LET ok == io_ok /\ name \notin s.profiles IN
    [s  |-> Called(IF ok THEN [s EXCEPT !.profiles = @ \cup {name}] ELSE s,
                   "create_profile", name, ok),
     ok |-> ok]

switch_profile(s, name, io_ok) ==
    LET ok == io_ok /\ name \in s.profiles IN
    [s  |-> Called(IF ok THEN [s EXCEPT !.current_profile = name] ELSE s,
                   "switch_profile", name, ok),
     ok |-> ok]

delete_profile(s, name, io_ok) ==
    LET ok == io_ok /\ name \in s.profiles
                    /\ name # s.current_profile /\ name # "default" IN
    [s  |-> Called(IF ok THEN [s EXCEPT !.profiles = @ \ {name}] ELSE s,
                   "delete_profile", name, ok),
     ok |-> ok]

rename_profile(s, old_name, new_name, io_ok) ==
    LET ok == io_ok /\ old_name \in s.profiles /\ new_name \notin s.profiles
                    /\ old_name # "default" IN
    [s  |-> Called(IF ok
                   THEN [s EXCEPT !.profiles = (@ \ {old_name}) \cup {new_name},
                                  !.current_profile =
                                      IF @ = old_name THEN new_name ELSE @]
                   ELSE s,
                   "rename_profile", old_name, ok),
     ok |-> ok]

\* session.conversation.reload_mcp_servers_for_profile
reload_mcp_servers_for_profile(s, name, io_ok) ==
    [s  |-> Called(IF io_ok THEN [s EXCEPT !.mcp_profile = name] ELSE s,
                   "reload_mcp_servers_for_profile", name, io_ok),
     ok |-> io_ok]

\* the reload that follows a successful switch, and its warning
ReloadAfterSwitch(s, name, reload_ok) ==
    LET r == reload_mcp_servers_for_profile(s, name, reload_ok) IN
    IF r.ok THEN r.s ELSE execute(r.s, "Warning: Failed to reload MCP servers")

List_execute(s, list_ok) ==
    LET l == list_profiles(s, list_ok) IN
    execute(IF l.ok THEN l.s ELSE execute(l.s, "Error listing profiles"), "profiles")

Create_execute(s, name, create_ok, switch_ok, reload_ok) ==
    LET c == create_profile(s, name, create_ok) IN
    IF ~c.ok THEN execute(c.s, "Error") ELSE
    LET w == switch_profile(execute(c.s, "Created profile"), name, switch_ok) IN
    IF w.ok
    THEN ReloadAfterSwitch(execute(w.s, "Switched to profile"), name, reload_ok)
    ELSE execute(w.s, "Warning: Failed to switch to new profile")

Delete_execute(s, name, delete_ok) ==
    LET d == delete_profile(s, name, delete_ok) IN
    IF d.ok THEN execute(d.s, "Deleted profile") ELSE execute(d.s, "Error")

Set_execute_reload_first(s, name, switch_ok, reload_ok) ==
    LET w == switch_profile(ReloadAfterSwitch(s, name, reload_ok), name, switch_ok) IN
    IF w.ok THEN execute(w.s, "Switched to profile") ELSE execute(w.s, "Error")

Set_execute(s, name, switch_ok, reload_ok) ==
    LET w == switch_profile(s, name, switch_ok) IN
    IF w.ok
    THEN ReloadAfterSwitch(execute(w.s, "Switched to profile"), name, reload_ok)
    ELSE execute(w.s, "Error")

Rename_execute(s, old_name, new_name, rename_ok) ==
    LET r == rename_profile(s, old_name, new_name, rename_ok) IN
    IF r.ok THEN execute(r.s, "Renamed profile") ELSE execute(r.s, "Error")

\* the let-else on the context manager, the match, and the value returned;
\* branch is what the matched arm does to the session
ProfileSubcommand_execute(s, branch) ==
    [s     |-> IF s.context_manager THEN branch ELSE s,
     state |-> "PromptUser"]

IdleSession ==
    [context_manager |-> TRUE, profiles |-> {"default"},
     current_profile |-> "default", mcp_profile |-> "default",
     events |-> <<>>, stderr |-> <<>>]

NoSubcommand ==
    [op |-> NONE, name |-> NONE, new_name |-> NONE, state |-> NONE,
     before |-> IdleSession]

-----------------------------------------------------------------------------
(* OptOutInterceptor *)

X_AMZN_CODEWHISPERER_OPT_OUT_HEADER == "x-amzn-codewhisperer-optout"

HeaderNames == {X_AMZN_CODEWHISPERER_OPT_OUT_HEADER, "content-type"}

\* Option<bool>
NoBool     == <<>>
SomeBool(b) == <<b>>
OptionBool == {NoBool, SomeBool(TRUE), SomeBool(FALSE)}

unwrap_or(o, d) == IF IsSome(o) THEN Unwrap(o) ELSE d

\* bool::to_string
to_string(b) == IF b THEN "true" ELSE "false"

\* database.settings.get_bool(Setting::ShareCodeWhispererContent)
get_bool(db) == db.ShareCodeWhispererContent

is_codewhisperer_content_optout(db) ==
    ~unwrap_or(get_bool(db), TRUE)

\* OptOutInterceptor::new
new(db) ==
    [is_codewhisperer_content_optout |-> is_codewhisperer_content_optout(db),
     override_value |-> NoBool]

\* Headers::insert: the value replaces whatever the header held
headers_insert(headers, name, value) ==
    [headers EXCEPT ![name] = <<value>>]

modify_before_signing_flag_first(self, headers) ==
    [headers |-> headers_insert(headers, X_AMZN_CODEWHISPERER_OPT_OUT_HEADER,
                     to_string(IF self.is_codewhisperer_content_optout
                               THEN TRUE
                               ELSE unwrap_or(self.override_value, FALSE))),
     result  |-> "Ok"]

modify_before_signing(self, headers) ==
    LET opt_out == unwrap_or(self.override_value,
                             self.is_codewhisperer_content_optout) IN
    [headers |-> headers_insert(headers, X_AMZN_CODEWHISPERER_OPT_OUT_HEADER,
                                to_string(opt_out)),
     result  |-> "Ok"]

EmptyRequest ==
    [h \in HeaderNames |->
        IF h = "content-type" THEN <<"application/json">> ELSE <<>>]

IdleDatabase == [ShareCodeWhispererContent |-> NoBool]

NoCall ==
    [op |-> NONE, headers |-> EmptyRequest, before |-> EmptyRequest, result |-> NONE]

-----------------------------------------------------------------------------
(* The file systems a command may start on *)

a1   == [n \in {"a"} |-> "d1"]
b2   == [n \in {"b"} |-> "d2"]
a2b1 == [n \in {"a", "b"} |-> IF n = "a" THEN "d2" ELSE "d1"]
a2b2 == [n \in {"a", "b"} |-> "d2"]

WorkspaceInit == {Absent, Malformed, Doc(Cfg(a1, FALSE)), Doc(Cfg(a1, TRUE))}
GlobalInit    == {Doc(Cfg(a2b1, FALSE))}
ProfileInit   == {Absent, Malformed, Doc(Cfg(b2, TRUE))}
SourceInit    == {Doc(Cfg(a2b2, TRUE))}

\* the directories that hold the files of f
DirsOf(f) == UNION {Ancestors(parent(p)) : p \in {q \in DOMAIN f : f[q].kind # "absent"}}

NoCommand ==
    [op |-> NONE, name |-> NONE, def |-> NONE, scope |-> NONE, profile |-> NONE,
     force |-> FALSE, file |-> <<>>, value |-> FALSE, path |-> <<>>,
     err |-> NONE, report |-> NONE, result |-> <<>>, added |-> 0, io |-> <<>>]

Init ==
    /\ \E w \in WorkspaceInit, g \in GlobalInit, p \in ProfileInit, s \in SourceInit :
         files = [q \in Paths |->
                    CASE q = workspace_mcp_config_path -> w
                      [] q = global_mcp_config_path    -> g
                      [] q = profile_mcp_path("p1")    -> p
                      [] q = SourcePath                -> s
                      [] OTHER                         -> Absent]
    /\ \E made \in SUBSET {parent(profile_mcp_path("p1"))} :
         dirs = DirsOf(files) \cup UNION {Ancestors(d) : d \in made}
    /\ pre = [files |-> files, dirs |-> dirs]
    /\ last = NoCommand
    /\ budget = MaxSteps
    /\ session = IdleSession
    /\ ran = NoSubcommand
    /\ database = IdleDatabase
    /\ interceptor = new(IdleDatabase)
    /\ request = NoCall

-----------------------------------------------------------------------------
(* One step: a command runs to completion on the current file system *)

ScopeArgs   == Scope \cup {NONE}
ProfileArgs == Profiles \cup {NONE}
FileArgs    == {SourcePath, workspace_mcp_config_path}

TargetOf(scope, profile) ==
    IF resolve_scope_profile(scope, profile).ok
    THEN resolve_scope_profile(scope, profile).path
    ELSE <<>>

Run(o, cmd) ==
    /\ budget > 0
    /\ budget' = budget - 1
    /\ pre' = [files |-> files, dirs |-> dirs]
    /\ files' = o.c.files
    /\ dirs' = o.c.dirs
    /\ last' = [cmd EXCEPT !.err = o.err, !.report = o.report,
                           !.result = o.result, !.added = o.added, !.io = o.c.io]
    /\ UNCHANGED <<session, ran, database, interceptor, request>>

Add ==
    \E name \in Names, def \in Defs, scope \in ScopeArgs,
       profile \in ProfileArgs, force \in BOOLEAN :
        Run(AddArgs_execute(Ctx(files, dirs), name, def, scope, profile, force),
            [NoCommand EXCEPT !.op = "add", !.name = name, !.def = def,
                              !.scope = scope, !.profile = profile, !.force = force,
                              !.path = TargetOf(scope, profile)])

Remove ==
    \E name \in Names, scope \in ScopeArgs, profile \in ProfileArgs :
        Run(RemoveArgs_execute(Ctx(files, dirs), name, scope, profile),
            [NoCommand EXCEPT !.op = "remove", !.name = name,
                              !.scope = scope, !.profile = profile,
                              !.path = TargetOf(scope, profile)])

Import ==
    \E file \in FileArgs, scope \in ScopeArgs, profile \in ProfileArgs,
       force \in BOOLEAN :
      \E order \in into_iter(files, file) :
        Run(ImportArgs_execute(Ctx(files, dirs), file, scope, profile, force, order),
            [NoCommand EXCEPT !.op = "import", !.file = file,
                              !.scope = scope, !.profile = profile, !.force = force,
                              !.path = TargetOf(scope, profile)])

UseProfileServersOnly ==
    \E profile \in Profiles, value \in BOOLEAN :
        Run(UseProfileServersOnlyArgs_execute(Ctx(files, dirs), profile, value),
            [NoCommand EXCEPT !.op = "use_profile_servers_only",
                              !.profile = profile, !.value = value,
                              !.path = profile_mcp_path(profile)])

\* ListArgs::execute reads through this call
Aggregate ==
    \E scope \in ScopeArgs, profile \in ProfileArgs :
        Run(get_mcp_server_configs(Ctx(files, dirs), scope, profile),
            [NoCommand EXCEPT !.op = "aggregate",
                              !.scope = scope, !.profile = profile])

Status ==
    \E name \in Names, profile \in ProfileArgs :
        Run(StatusArgs_execute(Ctx(files, dirs), name, profile),
            [NoCommand EXCEPT !.op = "status", !.name = name, !.profile = profile])

\* load_cfg on its own, on any configuration path
LoadCfg ==
    \E p \in ConfigPaths :
        LET l == load_cfg(Ctx(files, dirs), p) IN
        Run(Out(l.c, IF l.ok THEN NONE ELSE "LoadError", NONE,
                IF l.ok THEN <<l.cfg>> ELSE <<>>, 0),
            [NoCommand EXCEPT !.op = "load_cfg", !.path = p])

\* ensure_config_file on its own, on any configuration path
Ensure ==
    \E p \in ConfigPaths :
        LET e == ensure_config_file(Ctx(files, dirs), p) IN
        Run(Out(e.c, IF e.ok THEN NONE ELSE "LoadError", NONE,
                IF e.ok THEN <<e.cfg>> ELSE <<>>, 0),
            [NoCommand EXCEPT !.op = "ensure", !.path = p])

Next == \/ Add
        \/ Remove
        \/ Import
        \/ UseProfileServersOnly
        \/ Aggregate
        \/ Status
        \/ LoadCfg
        \/ Ensure

Spec == Init /\ [][Next]_vars

-----------------------------------------------------------------------------
(* The /profile subcommands on one chat session *)

NoFileSystem ==
    /\ files = [q \in Paths |-> Absent]
    /\ dirs = {}
    /\ pre = [files |-> files, dirs |-> dirs]
    /\ last = NoCommand

InitSession ==
    /\ NoFileSystem
    /\ budget = MaxSteps
    /\ \E cm \in BOOLEAN :
         session = [IdleSession EXCEPT !.context_manager = cm,
                                       !.profiles = {"default", "p1"}]
    /\ ran = NoSubcommand
    /\ database = IdleDatabase
    /\ interceptor = new(IdleDatabase)
    /\ request = NoCall

\* the session as a subcommand finds it: nothing called or printed yet
Fresh == [session EXCEPT !.events = <<>>, !.stderr = <<>>]

RunSubcommand(o, cmd) ==
    /\ budget > 0
    /\ budget' = budget - 1
    /\ session' = o.s
    /\ ran' = [cmd EXCEPT !.state = o.state, !.before = session]
    /\ UNCHANGED <<files, dirs, pre, last, database, interceptor, request>>

ProfileList ==
    \E list_ok \in BOOLEAN :
        RunSubcommand(ProfileSubcommand_execute(Fresh, List_execute(Fresh, list_ok)),
                      [NoSubcommand EXCEPT !.op = "list"])

ProfileCreate ==
    \E name \in ProfileNames, create_ok, switch_ok, reload_ok \in BOOLEAN :
        RunSubcommand(ProfileSubcommand_execute(Fresh,
                          Create_execute(Fresh, name, create_ok, switch_ok, reload_ok)),
                      [NoSubcommand EXCEPT !.op = "create", !.name = name])

ProfileDelete ==
    \E name \in ProfileNames, delete_ok \in BOOLEAN :
        RunSubcommand(ProfileSubcommand_execute(Fresh,
                          Delete_execute(Fresh, name, delete_ok)),
                      [NoSubcommand EXCEPT !.op = "delete", !.name = name])

ProfileSet ==
    \E name \in ProfileNames, switch_ok, reload_ok \in BOOLEAN :
        RunSubcommand(ProfileSubcommand_execute(Fresh,
                          Set_execute(Fresh, name, switch_ok, reload_ok)),
                      [NoSubcommand EXCEPT !.op = "set", !.name = name])

ProfileRename ==
    \E old_name, new_name \in ProfileNames, rename_ok \in BOOLEAN :
        RunSubcommand(ProfileSubcommand_execute(Fresh,
                          Rename_execute(Fresh, old_name, new_name, rename_ok)),
                      [NoSubcommand EXCEPT !.op = "rename", !.name = old_name,
                                           !.new_name = new_name])

NextSession == \/ ProfileList
               \/ ProfileCreate
               \/ ProfileDelete
               \/ ProfileSet
               \/ ProfileRename

SpecSession == InitSession /\ [][NextSession]_vars

-----------------------------------------------------------------------------
(* The interceptor on one outgoing request *)

InitOptOut ==
    /\ NoFileSystem
    /\ budget = MaxCalls
    /\ session = IdleSession
    /\ ran = NoSubcommand
    /\ \E share \in OptionBool :
         /\ database = [ShareCodeWhispererContent |-> share]
         /\ interceptor = new([ShareCodeWhispererContent |-> share])
    /\ request = NoCall

OptOutStep ==
    /\ budget > 0
    /\ budget' = budget - 1
    /\ UNCHANGED <<files, dirs, pre, last, session, ran>>

\* the interceptor runs on the request
ModifyBeforeSigning ==
    LET r == modify_before_signing(interceptor, request.headers) IN
    /\ OptOutStep
    /\ request' = [op |-> "modify_before_signing", headers |-> r.headers,
                   before |-> request.headers, result |-> r.result]
    /\ UNCHANGED <<database, interceptor>>

\* interceptor.override_value = ...
SetOverride ==
    \E v \in OptionBool :
        /\ OptOutStep
        /\ interceptor' = [interceptor EXCEPT !.override_value = v]
        /\ request' = [request EXCEPT !.op = "set_override", !.before = request.headers,
                                      !.result = NONE]
        /\ UNCHANGED database

\* the user changes the share-content setting while the client exists
SetSetting ==
    \E share \in OptionBool :
        /\ OptOutStep
        /\ database' = [ShareCodeWhispererContent |-> share]
        /\ request' = [request EXCEPT !.op = "set_setting", !.before = request.headers,
                                      !.result = NONE]
        /\ UNCHANGED interceptor

\* a new client is built: OptOutInterceptor::new(database)
New ==
    /\ OptOutStep
    /\ interceptor' = new(database)
    /\ request' = [request EXCEPT !.op = "new", !.before = request.headers,
                                  !.result = NONE]
    /\ UNCHANGED database

NextOptOut == \/ ModifyBeforeSigning
              \/ SetOverride
              \/ SetSetting
              \/ New

SpecOptOut == InitOptOut /\ [][NextOptOut]_vars

-----------------------------------------------------------------------------
(* Vocabulary of the properties *)

PreDoc(path)     == pre.files[path]
PreIsDoc(path)   == path \in Paths /\ PreDoc(path).kind = "doc"
PreServers(path) == PreDoc(path).cfg.mcp_servers
PreExclusive(path) == PreIsDoc(path) /\ PreDoc(path).cfg.use_profile_servers_only

Touched  == {last.io[i][2] : i \in DOMAIN last.io}
Written  == {last.io[i][2] : i \in {j \in DOMAIN last.io : last.io[j][1] = "write"}}
Unchanged == files = pre.files /\ dirs = pre.dirs /\ Written = {}

\* what a scope's entry holds when its document is loaded on its own
OwnEntry(path) == IF PreIsDoc(path) THEN <<PreDoc(path).cfg>> ELSE <<>>

PathOfScope(sc, profile) ==
    CASE sc = Workspace -> <<"workspace", "mcp.json">>
      [] sc = Global    -> <<"global", "mcp.json">>
      [] sc = Profile   -> <<"profiles", profile, "mcp.json">>

Precedence(profile) ==
    IF profile = NONE THEN <<Workspace, Global>> ELSE <<Profile, Workspace, Global>>

ResultScopes == [i \in DOMAIN last.result |-> last.result[i][1]]

AggregateAll == last.op = "aggregate" /\ last.scope = NONE

ShortCircuit == last.profile # NONE /\ PreExclusive(PathOfScope(Profile, last.profile))

-----------------------------------------------------------------------------
(* Properties *)

\* C1: aggregation without an explicit scope, for a profile whose document
\* decodes with exclusive = true, returns exactly the Profile entry and
\* touches no file but the profile's, whatever Workspace and Global hold.
C1_ExclusiveShortCircuit ==
    (AggregateAll /\ ShortCircuit)
    => /\ last.err = NONE
       /\ Len(last.result) = 1
       /\ last.result[1] = <<Profile, PathOfScope(Profile, last.profile),
                             OwnEntry(PathOfScope(Profile, last.profile))>>
       /\ Touched = {PathOfScope(Profile, last.profile)}

C1_Witness ==
    /\ AggregateAll /\ ShortCircuit
    /\ PreDoc(workspace_mcp_config_path).kind = "malformed"
    /\ PreIsDoc(global_mcp_config_path)
    /\ Len(last.result) = 1

\* C2: aggregation without an explicit scope and without short-circuit
\* returns the scopes Profile (only with a profile name), Workspace, Global
\* in this order, each entry holding the registry of its own location only.
C2_PrecedenceNoMerge ==
    (AggregateAll /\ ~ShortCircuit)
    => /\ last.err = NONE
       /\ ResultScopes = Precedence(last.profile)
       /\ \A i \in DOMAIN last.result :
            /\ last.result[i][2] = PathOfScope(last.result[i][1], last.profile)
            /\ last.result[i][3] = OwnEntry(last.result[i][2])

C2_Witness ==
    /\ AggregateAll /\ ~ShortCircuit
    /\ Len(last.result) = 3
    /\ \A i \in 1 .. 3 : IsSome(last.result[i][3])
    /\ "a" \in DOMAIN Unwrap(last.result[2][3]).mcp_servers
    /\ "a" \in DOMAIN Unwrap(last.result[3][3]).mcp_servers
    /\ Unwrap(last.result[2][3]).mcp_servers["a"]
         # Unwrap(last.result[3][3]).mcp_servers["a"]

AddDuplicate ==
    /\ last.op = "add" /\ ~last.force
    /\ PreIsDoc(last.path)
    /\ last.name \in DOMAIN PreServers(last.path)

\* C3: Add without force of a name the target registry already has fails
\* with DuplicateServer and writes nothing: the file system is as before.
C3_AddDuplicateNoWrite ==
    AddDuplicate => last.err = "DuplicateServer" /\ Unchanged

C3_Witness ==
    /\ AddDuplicate
    /\ last.err = "DuplicateServer"
    /\ PreServers(last.path)[last.name] # last.def

ImportCollision ==
    /\ last.op = "import" /\ ~last.force
    /\ PreIsDoc(last.file)
    /\ PreIsDoc(last.path)
    /\ DOMAIN PreServers(last.file) \cap DOMAIN PreServers(last.path) # {}

\* C4: Import without force whose source has a name the destination already
\* has fails with DuplicateServer and leaves the file system as before,
\* however many source entries were merged in memory before the collision.
C4_ImportAllOrNothing ==
    ImportCollision => last.err = "DuplicateServer" /\ Unchanged

C4_Witness ==
    /\ ImportCollision
    /\ last.err = "DuplicateServer"
    /\ last.added >= 1
    /\ last.file # last.path

Candidates == {PathOfScope(Precedence(last.profile)[i], last.profile) :
                   i \in DOMAIN Precedence(last.profile)}

MalformedCandidate ==
    /\ AggregateAll
    /\ \E q \in Candidates : PreDoc(q).kind = "malformed"

\* C5: a candidate scope whose document exists but does not decode does not
\* make aggregation fail: its entry holds no registry, a malformed Profile
\* document never short-circuits, and every candidate that is returned
\* holds what its own location loads to, in precedence order.
C5_DecodeErrorContained ==
    MalformedCandidate
    => /\ last.err = NONE
       /\ \A i \in DOMAIN last.result :
            /\ PreDoc(last.result[i][2]).kind = "malformed" => last.result[i][3] = NoCfg
            /\ PreDoc(last.result[i][2]).kind = "doc"
                 => last.result[i][3] = SomeCfg(PreDoc(last.result[i][2]).cfg)
       /\ ~ShortCircuit => ResultScopes = Precedence(last.profile)
       /\ (last.profile # NONE
             /\ PreDoc(PathOfScope(Profile, last.profile)).kind = "malformed")
            => Len(last.result) = 3

C5_Witness ==
    /\ MalformedCandidate
    /\ last.profile # NONE
    /\ PreDoc(PathOfScope(Profile, last.profile)).kind = "malformed"
    /\ Len(last.result) = 3
    /\ last.result[1][3] = NoCfg
    /\ IsSome(last.result[2][3])
    /\ IsSome(last.result[3][3])

LoadCfgAbsent ==
    last.op = "load_cfg" /\ PreDoc(last.path).kind = "absent"

\* C6 as stated: a location that does not exist loads to the empty default
\* registry, in aggregation as well as in load_cfg.
C6_AbsentLoadsDefaultEverywhere ==
    /\ LoadCfgAbsent => last.err = NONE /\ last.result = <<McpServerConfig_default>>
    /\ last.op = "aggregate"
         => /\ last.err # "LoadError"
            /\ \A i \in DOMAIN last.result :
                 PreDoc(last.result[i][2]).kind = "absent"
                   => last.result[i][3] = SomeCfg(McpServerConfig_default)

\* C6 (amended): loading a location that does not exist is never an error;
\* load_cfg returns the empty default registry, while the load aggregation
\* performs for a scope returns an absent registry for it.
C6_AbsentLoad ==
    /\ LoadCfgAbsent => last.err = NONE /\ last.result = <<McpServerConfig_default>>
    /\ last.op = "aggregate"
         => /\ last.err # "LoadError"
            /\ \A i \in DOMAIN last.result :
                 PreDoc(last.result[i][2]).kind = "absent"
                   => last.result[i][3] = NoCfg

C6_Witness ==
    /\ LoadCfgAbsent
    /\ last.err = NONE
    /\ last.result = <<McpServerConfig_default>>
    /\ files = pre.files

ExplicitScope == last.op = "aggregate" /\ last.scope # NONE

\* C7: aggregation with an explicit scope returns exactly one entry, for
\* that scope and from that scope's location alone, also when the named
\* profile is exclusive; it fails only for scope Profile without a name.
C7_ExplicitScopeAlone ==
    ExplicitScope
    => IF last.scope = Profile /\ last.profile = NONE
       THEN last.err = "MissingProfileName" /\ Touched = {}
       ELSE /\ last.err = NONE
            /\ Len(last.result) = 1
            /\ last.result[1] = <<last.scope, PathOfScope(last.scope, last.profile),
                                  OwnEntry(PathOfScope(last.scope, last.profile))>>
            /\ Touched = {PathOfScope(last.scope, last.profile)}

C7_Witness ==
    /\ ExplicitScope
    /\ last.scope \in {Workspace, Global}
    /\ ShortCircuit
    /\ Len(last.result) = 1
    /\ last.result[1][1] = last.scope
    /\ IsSome(last.result[1][3])

RemoveUnknown ==
    /\ last.op = "remove"
    /\ PreIsDoc(last.path)
    /\ last.name \notin DOMAIN PreServers(last.path)

\* C8: Remove of a name the existing target registry does not have returns
\* the non-fatal not-found result and writes nothing; Remove writes only
\* when it took an entry out.
C8_RemoveUnknownNoWrite ==
    /\ RemoveUnknown
         => last.err = NONE /\ last.report = "not_found" /\ Unchanged
    /\ (last.op = "remove" /\ Written # {})
         => /\ PreIsDoc(last.path)
            /\ last.name \in DOMAIN PreServers(last.path)
            /\ last.report = "removed"

C8_Witness ==
    /\ RemoveUnknown
    /\ last.report = "not_found"
    /\ PreServers(last.path) # EmptyServers

RemoveNoFile ==
    /\ last.op = "remove"
    /\ last.path # <<>>
    /\ PreDoc(last.path).kind = "absent"

\* C9: Remove on a target location that does not exist succeeds with the
\* nothing-to-remove report and neither creates nor writes anything.
C9_RemoveNoFile ==
    RemoveNoFile
    => /\ last.err = NONE
       /\ last.report = "no_configs"
       /\ Unchanged
       /\ files[last.path].kind = "absent"

C9_Witness ==
    /\ RemoveNoFile
    /\ last.report = "no_configs"
    /\ parent(last.path) \notin dirs

SetExclusivityNoProfile ==
    /\ last.op = "use_profile_servers_only"
    /\ parent(last.path) \notin pre.dirs

\* C10: SetExclusivity on a profile whose directory does not exist fails
\* with ProfileNotFound and creates no file and no directory, for either
\* value of the flag.
C10_ProfileNotFound ==
    SetExclusivityNoProfile
    => /\ last.err = "ProfileNotFound"
       /\ Unchanged
       /\ files[last.path].kind = "absent"
       /\ parent(last.path) \notin dirs

C10_Witness ==
    /\ SetExclusivityNoProfile
    /\ last.value
    /\ last.err = "ProfileNotFound"
    /\ parent(last.path) \notin dirs

ImportSourceUnreadable ==
    /\ last.op = "import"
    /\ last.path # <<>>
    /\ PreDoc(last.file).kind # "doc"

\* C11: an Import whose source cannot be read or decoded fails and leaves
\* the destination untouched: no file and no directory is created.
C11_SourceBeforeDestination ==
    ImportSourceUnreadable
    => last.err # NONE /\ files = pre.files /\ dirs = pre.dirs

MalformedTarget ==
    /\ last.op \in {"add", "import"}
    /\ last.path # <<>>
    /\ PreDoc(last.path).kind = "malformed"

\* C12 as stated: a target of Add or Import that exists but does not decode
\* is taken as an absent registry and raises no terminal error.
C12_MalformedTargetContained ==
    MalformedTarget => last.err # "LoadError"

\* C12 (amended): a target of Add or Import that exists but does not decode
\* is a terminal error, as it is for the Import source: the command fails on
\* the load in ensure_config_file and the file system is left as it was.
C12_MalformedTargetTerminal ==
    /\ MalformedTarget => last.err = "LoadError" /\ Unchanged
    /\ (last.op = "import" /\ PreIsDoc(last.path)
          /\ PreDoc(last.file).kind = "malformed")
         => last.err = "LoadError" /\ Unchanged

C12_Witness ==
    /\ MalformedTarget
    /\ last.op = "add"
    /\ last.err = "LoadError"
    /\ files[last.path].kind = "malformed"

NoProfileName ==
    /\ last.op \in {"add", "remove", "import", "aggregate"}
    /\ last.scope = Profile
    /\ last.profile = NONE

\* C13: scope Profile without a profile name fails with MissingProfileName
\* in Add, Remove, Import and aggregation, before any file-system call.
C13_MissingProfileName ==
    NoProfileName
    => /\ last.err = "MissingProfileName"
       /\ last.io = <<>>
       /\ Unchanged

C13_Witness ==
    /\ NoProfileName
    /\ last.op = "import"
    /\ last.err = "MissingProfileName"
    /\ last.io = <<>>

\* some Workspace or Global registry of f has exclusive = true
NonProfileExclusive(f) ==
    \E q \in {workspace_mcp_config_path, global_mcp_config_path} :
        f[q].kind = "doc" /\ f[q].cfg.use_profile_servers_only

\* C14: no command produces a Workspace or Global registry with
\* exclusive = true: if none had it before the command, none has it after,
\* so from documents without one every sequence of commands keeps it so,
\* also an Import whose source has exclusive = true.
C14_NoExclusiveOutsideProfile ==
    ~NonProfileExclusive(pre.files) => ~NonProfileExclusive(files)

C14_Witness ==
    /\ last.op = "import"
    /\ last.err = NONE
    /\ last.added >= 1
    /\ last.path \in {workspace_mcp_config_path, global_mcp_config_path}
    /\ PreExclusive(last.file)
    /\ ~NonProfileExclusive(pre.files)
    /\ files[last.path] # pre.files[last.path]
    /\ ~NonProfileExclusive(files)

\* the server set persisted at path in f (empty when there is no registry)
ServersAt(f, path) ==
    IF f[path].kind = "doc" THEN f[path].cfg.mcp_servers ELSE EmptyServers

AddedNew ==
    /\ last.op = "add"
    /\ last.err = NONE
    /\ last.name \notin DOMAIN ServersAt(pre.files, last.path)

\* C15: a successful Add of a name the target registry did not have leaves
\* the persisted registry with that name and exactly one more entry, and a
\* Remove of the same name on the same target right after it succeeds and
\* restores the persisted server set to what it was before the Add.
C15_AddRemoveCycle ==
    [][AddedNew =>
         /\ DOMAIN ServersAt(files, last.path)
              = DOMAIN ServersAt(pre.files, last.path) \cup {last.name}
         /\ Cardinality(DOMAIN ServersAt(files, last.path))
              = Cardinality(DOMAIN ServersAt(pre.files, last.path)) + 1
         /\ (last'.op = "remove" /\ last'.path = last.path /\ last'.name = last.name)
              => /\ last'.err = NONE
                 /\ last'.report = "removed"
                 /\ ServersAt(files', last.path) = ServersAt(pre.files, last.path)
      ]_vars

C15_Witness ==
    /\ last.op = "remove"
    /\ last.name = "b"
    /\ last.path = workspace_mcp_config_path
    /\ last.report = "removed"
    /\ DOMAIN ServersAt(pre.files, last.path) = {"a", "b"}
    /\ ServersAt(files, last.path) = a1

EnsureCall == last.op = "ensure"

\* C16: ensure on a location that does not exist persists an empty default
\* registry there, creating its directories, before it loads and returns
\* the empty registry; after a successful ensure the location exists; on
\* an existing well-formed location it writes nothing and returns the
\* registry stored there.
C16_Ensure ==
    EnsureCall
    => /\ PreDoc(last.path).kind = "absent"
            => /\ last.err = NONE
               /\ last.result = <<McpServerConfig_default>>
               /\ files = [pre.files EXCEPT ![last.path] = Doc(McpServerConfig_default)]
               /\ parent(last.path) \in dirs
               /\ \E i, j \in DOMAIN last.io :
                    /\ i < j
                    /\ last.io[i] = <<"write", last.path>>
                    /\ last.io[j] = <<"read", last.path>>
       /\ PreIsDoc(last.path)
            => /\ last.err = NONE
               /\ last.result = <<PreDoc(last.path).cfg>>
               /\ Unchanged
       /\ last.err = NONE => files[last.path].kind = "doc"

C16_Witness ==
    /\ EnsureCall
    /\ PreDoc(last.path).kind = "absent"
    /\ parent(last.path) \notin pre.dirs
    /\ files[last.path] = Doc(McpServerConfig_default)
    /\ last.result = <<McpServerConfig_default>>

Mutation == last.op \in {"add", "remove", "import"}

\* the files the last command called exists, read or write on
FilesTouched == Touched \cap Paths

\* C17: scope Workspace resolves to the workspace location, scope Global to
\* the global location, and an absent scope to the workspace location with
\* or without a profile name; Add, Remove and Import without a scope read
\* and write the Workspace document only (Import also reads its source).
C17_DefaultsToWorkspace ==
    Mutation
    => /\ last.scope \in {NONE, Workspace} => last.path = <<"workspace", "mcp.json">>
       /\ last.scope = Global => last.path = <<"global", "mcp.json">>
       /\ last.scope # Profile
            => /\ Written \subseteq {last.path}
               /\ FilesTouched \subseteq
                    {last.path} \cup (IF last.op = "import" THEN {last.file} ELSE {})
               /\ \A q \in Paths \ {last.path} : files[q] = pre.files[q]

C17_Witness ==
    /\ last.op = "add"
    /\ last.scope = NONE
    /\ last.profile = "p1"
    /\ last.err = NONE
    /\ Written = {workspace_mcp_config_path}
    /\ files[workspace_mcp_config_path] # pre.files[workspace_mcp_config_path]
    /\ files[profile_mcp_path("p1")] = pre.files[profile_mcp_path("p1")]

SetExclusivityDone ==
    last.op = "use_profile_servers_only" /\ last.err = NONE

\* the exclusive flag persisted for profile p in f (false without a registry)
ExclusiveAt(f, p) ==
    f[profile_mcp_path(p)].kind = "doc"
      /\ f[profile_mcp_path(p)].cfg.use_profile_servers_only

\* C19: exclusivity acts through the persisted flag alone.  A successful
\* SetExclusivity(P, v) leaves P's registry with exclusive = v; no other
\* command (Add, Remove, Import, aggregation, a failed or foreign
\* SetExclusivity) changes the flag of an existing profile registry; and
\* aggregation without scope for P returns only the Profile entry when the
\* flag is set and Profile, Workspace, Global when it is not.
C19_ExclusivityPersists ==
    /\ SetExclusivityDone
         => /\ files[last.path].kind = "doc"
            /\ ExclusiveAt(files, last.profile) = last.value
    /\ \A p \in Profiles :
         (PreIsDoc(profile_mcp_path(p))
            /\ ~(SetExclusivityDone /\ last.profile = p))
           => /\ files[profile_mcp_path(p)].kind = "doc"
              /\ ExclusiveAt(files, p) = ExclusiveAt(pre.files, p)
    /\ (AggregateAll /\ last.profile # NONE
          /\ PreIsDoc(PathOfScope(Profile, last.profile)))
         => ResultScopes = IF ExclusiveAt(pre.files, last.profile)
                           THEN <<Profile>>
                           ELSE <<Profile, Workspace, Global>>

C19_Witness ==
    /\ AggregateAll
    /\ last.profile = "p1"
    /\ PreIsDoc(profile_mcp_path("p1"))
    /\ PreServers(profile_mcp_path("p1")) = b2
    /\ ~ExclusiveAt(pre.files, "p1")
    /\ ResultScopes = <<Profile, Workspace, Global>>

\* C20: a successful SetExclusivity(P, v) changes the flag only: an
\* existing registry that decodes is persisted with exclusive = v and the
\* same servers; without a document the persisted registry is the empty
\* default with exclusive = v; no other file changes.
C20_SetExclusivityFrame ==
    SetExclusivityDone
    => /\ PreIsDoc(last.path)
            => files[last.path]
                 = Doc(Cfg(PreServers(last.path), last.value))
       /\ PreDoc(last.path).kind = "absent"
            => files[last.path] = Doc(Cfg(EmptyServers, last.value))
       /\ \A q \in Paths \ {last.path} : files[q] = pre.files[q]

C20_Witness ==
    /\ SetExclusivityDone
    /\ PreIsDoc(last.path)
    /\ PreServers(last.path) # EmptyServers
    /\ PreExclusive(last.path) # last.value
    /\ files[last.path].cfg.mcp_servers = PreServers(last.path)
    /\ files[last.path].cfg.use_profile_servers_only = last.value

MalformedMutationTarget ==
    /\ last.op \in {"add", "remove", "import", "use_profile_servers_only"}
    /\ last.path # <<>>
    /\ PreDoc(last.path).kind = "malformed"

\* C21: Add, Remove, Import and SetExclusivity on a target location that
\* holds a malformed document leave that document as it is.
C21_MalformedNeverOverwritten ==
    MalformedMutationTarget => files[last.path] = pre.files[last.path]

ImportDone == last.op = "import" /\ last.err = NONE

\* positions of the I/O trace where the last command wrote to path
WritesTo(path) == {i \in DOMAIN last.io : last.io[i] = <<"write", path>>}

\* dst overridden by src: every name of src with src's definition, every
\* other name of dst as it was
Overridden(dst, src) ==
    [n \in DOMAIN dst \cup DOMAIN src |-> IF n \in DOMAIN src THEN src[n] ELSE dst[n]]

\* the registry a location holds for a mutation: the stored one, or the
\* empty default when nothing is stored there
RegistryAt(f, path) ==
    IF f[path].kind = "doc" THEN f[path].cfg ELSE McpServerConfig_default

ImportMerged ==
    files[last.path]
      = Doc(Cfg(Overridden(RegistryAt(pre.files, last.path).mcp_servers,
                           ServersAt(pre.files, last.file)),
                RegistryAt(pre.files, last.path).use_profile_servers_only))

\* C22 as stated: a successful Import writes the destination exactly once,
\* and what it leaves there is the destination overridden by the source.
C22_ImportPersistsOnce ==
    ImportDone => Cardinality(WritesTo(last.path)) = 1 /\ ImportMerged

\* C22 (amended): a successful Import persists the merged registry exactly
\* once, as its last file-system call and after the source was read; the
\* only other write is the empty default that ensure stores first when the
\* destination did not exist.  The persisted registry is the destination
\* overridden by the source, with the destination's exclusive flag.
C22_ImportMergePersistedOnce ==
    ImportDone
    => /\ ImportMerged
       /\ last.io[Len(last.io)] = <<"write", last.path>>
       /\ Cardinality({i \in WritesTo(last.path) :
                          \E j \in DOMAIN last.io :
                              j < i /\ last.io[j] = <<"read", last.file>>}) = 1
       /\ Cardinality(WritesTo(last.path))
            = IF PreDoc(last.path).kind = "absent" THEN 2 ELSE 1
       /\ Written = {last.path}
       /\ \A q \in Paths \ {last.path} : files[q] = pre.files[q]

C22_Witness ==
    /\ ImportDone
    /\ last.force
    /\ last.file # last.path
    /\ PreIsDoc(last.path)
    /\ PreServers(last.path) = a1
    /\ PreExclusive(last.path) # PreExclusive(last.file)
    /\ files[last.path].cfg.mcp_servers = a2b2
    /\ Cardinality(WritesTo(last.path)) = 1

AddDone == last.op = "add" /\ last.err = NONE

\* C23: a successful Add persists the target registry with the name mapped
\* to the new definition, every other entry as before and the exclusive
\* flag as before (an absent target counts as the empty default).
C23_AddFrame ==
    AddDone
    => /\ files[last.path].kind = "doc"
       /\ files[last.path].cfg.mcp_servers[last.name] = last.def
       /\ DOMAIN files[last.path].cfg.mcp_servers
            = DOMAIN RegistryAt(pre.files, last.path).mcp_servers \cup {last.name}
       /\ \A n \in DOMAIN RegistryAt(pre.files, last.path).mcp_servers \ {last.name} :
            files[last.path].cfg.mcp_servers[n]
              = RegistryAt(pre.files, last.path).mcp_servers[n]
       /\ files[last.path].cfg.use_profile_servers_only
            = RegistryAt(pre.files, last.path).use_profile_servers_only
       /\ (last.name \in DOMAIN RegistryAt(pre.files, last.path).mcp_servers)
            => last.force

C23_Witness ==
    /\ AddDone
    /\ last.force
    /\ PreIsDoc(last.path)
    /\ PreServers(last.path) = a2b1
    /\ last.name = "a"
    /\ last.def = "d1"
    /\ files[last.path].cfg.mcp_servers["a"] = "d1"
    /\ files[last.path].cfg.mcp_servers["b"] = "d1"

\* the one location a mutation's (scope, profile) arguments name; <<>> when
\* they name none
TargetLocation ==
    CASE last.op = "use_profile_servers_only" -> <<"profiles", last.profile, "mcp.json">>
      [] last.op \in {"add", "remove", "import"} ->
            IF last.scope = NONE THEN <<"workspace", "mcp.json">>
            ELSE IF last.scope = Profile /\ last.profile = NONE THEN <<>>
            ELSE PathOfScope(last.scope, last.profile)
      [] OTHER -> <<>>

\* C24: Add, Remove, Import and SetExclusivity write only the location
\* their (scope, profile) arguments resolve to; every other document is as
\* before, and no directory is made outside the target's own, whether the
\* command succeeds or fails; aggregation writes nothing and creates
\* nothing.
C24_Confined ==
    /\ last.op \in {"add", "remove", "import", "use_profile_servers_only"}
         => /\ Written \subseteq {TargetLocation}
            /\ \A q \in Paths \ {TargetLocation} : files[q] = pre.files[q]
            /\ dirs \ pre.dirs \subseteq Ancestors(parent(TargetLocation))
    /\ last.op = "aggregate"
         => Written = {} /\ files = pre.files /\ dirs = pre.dirs

C24_Witness ==
    /\ last.op = "import"
    /\ last.err = "DuplicateServer"
    /\ last.scope = Profile
    /\ last.profile = "p1"
    /\ Written = {}
    /\ files = pre.files
    /\ PreDoc(workspace_mcp_config_path).kind = "malformed"

NonProfileShortCircuitCase ==
    /\ AggregateAll
    /\ ~ShortCircuit
    /\ NonProfileExclusive(pre.files)

\* C25: a Workspace or Global document with exclusive = true does not
\* short-circuit aggregation: unless the Profile document itself is
\* exclusive, every candidate scope is loaded and returned in precedence
\* order, the scopes after the flagged one included.
C25_OnlyProfileShortCircuits ==
    NonProfileShortCircuitCase
    => /\ last.err = NONE
       /\ ResultScopes = Precedence(last.profile)
       /\ \A i \in DOMAIN last.result :
            last.result[i][3] = OwnEntry(last.result[i][2])
       /\ <<"read", global_mcp_config_path>> \in {last.io[i] : i \in DOMAIN last.io}

C25_Witness ==
    /\ NonProfileShortCircuitCase
    /\ PreExclusive(workspace_mcp_config_path)
    /\ last.profile = "p1"
    /\ Len(last.result) = 3
    /\ last.result[2][1] = Workspace
    /\ Unwrap(last.result[2][3]).use_profile_servers_only
    /\ last.result[3][1] = Global
    /\ IsSome(last.result[3][3])

StatusCall == last.op = "status"

\* the scopes aggregation without scope returns for the profile of the last
\* command, read off the documents as they were before it
VisibleScopes ==
    IF ShortCircuit THEN <<Profile>> ELSE Precedence(last.profile)

\* the scopes among them whose document decodes and has the name
DefiningScopes ==
    SelectSeq(VisibleScopes,
              LAMBDA sc : /\ PreIsDoc(PathOfScope(sc, last.profile))
                          /\ last.name \in DOMAIN PreServers(PathOfScope(sc, last.profile)))

\* C26: Status of a name succeeds exactly when some entry aggregation
\* returns for the profile has a loaded registry with that name, and it
\* prints one block per such scope, in precedence order, with that scope's
\* own definition; for an exclusive profile Workspace and Global are not
\* consulted, so a name they alone define is reported as not found.
C26_StatusFollowsAggregate ==
    StatusCall
    => /\ last.err = NONE <=> DefiningScopes # <<>>
       /\ last.err # NONE => last.err = "ServerNotFound"
       /\ Len(last.result) = Len(DefiningScopes)
       /\ \A i \in DOMAIN last.result :
            /\ last.result[i][1] = DefiningScopes[i]
            /\ last.result[i][2] = PathOfScope(DefiningScopes[i], last.profile)
            /\ last.result[i][3] = PreServers(last.result[i][2])[last.name]
       /\ ShortCircuit
            => /\ Touched = {PathOfScope(Profile, last.profile)}
               /\ last.name \notin DOMAIN PreServers(PathOfScope(Profile, last.profile))
                    => last.err = "ServerNotFound"
       /\ Unchanged

C26_Witness ==
    /\ StatusCall
    /\ ShortCircuit
    /\ last.name = "a"
    /\ PreServers(PathOfScope(Profile, last.profile)) = b2
    /\ PreIsDoc(workspace_mcp_config_path)
    /\ "a" \in DOMAIN PreServers(workspace_mcp_config_path)
    /\ "a" \in DOMAIN PreServers(global_mcp_config_path)
    /\ last.err = "ServerNotFound"
    /\ last.result = <<>>

-----------------------------------------------------------------------------
(* Properties of the /profile subcommands (SpecSession) *)

\* positions of session.events where the last subcommand made the call
CallsOf(call) == {i \in DOMAIN session.events : session.events[i][1] = call}

Reloads == CallsOf("reload_mcp_servers_for_profile")

\* C27: a /profile subcommand reloads the MCP servers only for Set and
\* Create, once, for the named profile, and only after switch_profile
\* succeeded (for Create, after create_profile succeeded before that); a
\* failed create makes no switch and no reload, a failed switch no reload.
\* A failed reload prints a warning and nothing else changes: the session
\* is on the new profile.  Every subcommand returns the prompt-user state,
\* whatever its calls returned and also without a context manager.
C27_ReloadAfterSwitch ==
    ran.op # NONE
    => /\ ran.state = "PromptUser"
       /\ \A i \in Reloads :
            /\ ran.op \in {"set", "create"}
            /\ session.events[i] [2] = ran.name
            /\ \E j \in 1 .. i - 1 :
                 /\ session.events[j] = <<"switch_profile", ran.name, TRUE>>
                 /\ ran.op = "create"
                      => \E k \in 1 .. j - 1 :
                           session.events[k] = <<"create_profile", ran.name, TRUE>>
       /\ Cardinality(Reloads)
            = IF \E j \in CallsOf("switch_profile") : session.events[j][3]
              THEN 1 ELSE 0
       /\ (\E k \in CallsOf("create_profile") : ~session.events[k][3])
            => CallsOf("switch_profile") = {} /\ Reloads = {}
       /\ (\E j \in CallsOf("switch_profile") : ~session.events[j][3])
            => /\ Reloads = {}
               /\ session.current_profile = ran.before.current_profile
               /\ session.mcp_profile = ran.before.mcp_profile
       /\ (\E i \in Reloads : ~session.events[i][3])
            => /\ session.current_profile = ran.name
               /\ session.stderr[Len(session.stderr)]
                    = "Warning: Failed to reload MCP servers"
               /\ \A n \in DOMAIN session.stderr : session.stderr[n] # "Error"
       /\ ~ran.before.context_manager
            => session = [ran.before EXCEPT !.events = <<>>, !.stderr = <<>>]

C27_Witness ==
    /\ ran.op = "create"
    /\ ran.name = "p2"
    /\ ran.before.current_profile = "p1"
    /\ session.events = << <<"create_profile", "p2", TRUE>>,
                           <<"switch_profile", "p2", TRUE>>,
                           <<"reload_mcp_servers_for_profile", "p2", FALSE>> >>
    /\ session.current_profile = "p2"
    /\ session.mcp_profile # "p2"
    /\ ran.state = "PromptUser"

-----------------------------------------------------------------------------
(* Properties of the interceptor (SpecOptOut) *)

OptOutHeader(headers) == headers[X_AMZN_CODEWHISPERER_OPT_OUT_HEADER]

\* the flag the constructor computes from the database
FlagOfSetting ==
    ~(IF database.ShareCodeWhispererContent = <<>>
      THEN TRUE ELSE database.ShareCodeWhispererContent[1])

\* what one step on the request is allowed to do
OptOutStepOk ==
    /\ request'.op = "modify_before_signing"
         => /\ request'.result = "Ok"
            /\ OptOutHeader(request'.headers)
                 = << IF interceptor.override_value = <<TRUE>> THEN "true"
                      ELSE IF interceptor.override_value = <<FALSE>> THEN "false"
                      ELSE IF interceptor.is_codewhisperer_content_optout
                           THEN "true" ELSE "false" >>
            /\ \A h \in HeaderNames \ {X_AMZN_CODEWHISPERER_OPT_OUT_HEADER} :
                 request'.headers[h] = request.headers[h]
            /\ interceptor' = interceptor
    /\ request'.op = "new"
         => interceptor'.is_codewhisperer_content_optout = FlagOfSetting
    /\ request'.op \in {"set_setting", "set_override", "modify_before_signing"}
         => interceptor'.is_codewhisperer_content_optout
              = interceptor.is_codewhisperer_content_optout

\* C28: every call of modify_before_signing returns Ok and leaves the
\* opt-out header with exactly one value, replacing what it held: the
\* override value when one is set, else the flag of the interceptor; no
\* other header changes.  The flag is what the constructor computed, the
\* negation of the share-content setting (true when unset), and only a new
\* construction changes it, not a later change of the setting.
C28_OptOutHeader ==
    /\ interceptor.is_codewhisperer_content_optout = FlagOfSetting
    /\ [][OptOutStepOk]_vars

C28_Witness ==
    /\ request.op = "modify_before_signing"
    /\ request.result = "Ok"
    /\ interceptor.is_codewhisperer_content_optout
    /\ interceptor.override_value = <<FALSE>>
    /\ OptOutHeader(request.before) = <<"true">>
    /\ OptOutHeader(request.headers) = <<"false">>

====
